---- MODULE Spec2Model ----
(***************************************************************************)
(* Transmission engine of the communication simulator: the dispatcher      *)
(* processTransmission and the codec families behind it, as implemented    *)
(* by the "gemini" library (src/unnamed/part_002), the "student" library   *)
(* (src/lib/transmission.ts) and the "chat" library (src/unnamed/part_001).*)
(*                                                                         *)
(* A JavaScript string is a sequence of one-character strings.  A number   *)
(* that a line codec handles is an integer, NaN or undefined (two          *)
(* sentinels outside the range of every symbol).                           *)
(***************************************************************************)
EXTENDS Integers, Sequences, FiniteSets, TLC

VARIABLES impl, mode, algorithm, inputData, pc, result, frames,
          implementation, results, isProcessing, timers

vars == <<impl, mode, algorithm, inputData, pc, result, frames,
          implementation, results, isProcessing, timers>>

(***************************************************************************)
(* Bounds of the model.                                                    *)
(***************************************************************************)
\* longest digital input text, in characters
MaxLen == 3
\* most numeric literals in an analog input text
MaxSamples == 3
\* longest bit string of an invocation that is run step by step
MaxStepLen == 2

(***************************************************************************)
(* JavaScript values.                                                      *)
(***************************************************************************)
\* the number NaN, as parseInt and Number return it for a non-digit
NaN == 1000000007
\* the value undefined, as an out-of-range array read returns it
Undefined == 1000000009
\* the number Infinity, as Number returns it for a token beyond the largest double
Infinity == 1000000011

\* a field a result record does not carry
Absent == <<"absent">>

DigitChars == <<"0", "1", "2", "3", "4", "5", "6", "7", "8", "9">>

IsDigit(c) == \E d \in 1..10 : DigitChars[d] = c

DigitValue(c) == (CHOOSE d \in 1..10 : DigitChars[d] = c) - 1

\* String.prototype.split("") : one element per character
Chars(s) == s

\* parseInt(b, 10) of one character
parseInt(c) == IF IsDigit(c) THEN DigitValue(c) ELSE NaN

\* Number(b) of one character: white space converts to 0
NumberOfChar(c) == IF IsDigit(c) THEN DigitValue(c) ELSE IF c = " " THEN 0 ELSE NaN

\* arr[i] with a JavaScript (0-based) index
At(arr, i) == IF i >= 0 /\ i < Len(arr) THEN arr[i + 1] ELSE Undefined

IsNumber(n) == n # NaN /\ n # Undefined

\* a - b
Minus(a, b) == IF IsNumber(a) /\ IsNumber(b) THEN a - b ELSE NaN

\* Math.round of an integral symbol
MathRound(n) == n

RECURSIVE NatToChars(_)
NatToChars(n) ==
    IF n < 10 THEN <<DigitChars[n + 1]>>
    ELSE NatToChars(n \div 10) \o <<DigitChars[(n % 10) + 1]>>

\* String(n) as Array.prototype.join applies it to an element
NumToChars(n) ==
    IF n = Undefined THEN <<>>
    ELSE IF n = NaN THEN <<"N", "a", "N">>
    ELSE IF n < 0 THEN <<"-">> \o NatToChars(-n)
    ELSE NatToChars(n)

RECURSIVE Join(_)
\* arr.join("")
Join(arr) == IF arr = <<>> THEN <<>> ELSE NumToChars(Head(arr)) \o Join(Tail(arr))

\* the template string of n * k followed by the unit
Metric(n, k, unit) == ToString(n * k) \o unit

(***************************************************************************)
(* Result records.                                                         *)
(***************************************************************************)
NoResult ==
    [kind |-> "pending", original |-> Absent, originalAnalog |-> Absent,
     encoded |-> Absent, decoded |-> Absent, decodedAnalog |-> Absent,
     demodulatedSignal |-> Absent,
     metrics |-> [bitRate |-> "", signalLevels |-> "", bandwidth |-> ""]]

\* the value null
Null == [NoResult EXCEPT !.kind = "null"]

\* a call that ends in a raised TypeError
Raised == [NoResult EXCEPT !.kind = "throw"]

\* a returned value that is neither null nor a result record
NonRecord == [NoResult EXCEPT !.kind = "value"]

DigitalResult(data, encoded, decoded, metrics) ==
    [NoResult EXCEPT !.kind = "record", !.original = data, !.encoded = encoded,
                     !.decoded = decoded, !.metrics = metrics]

(***************************************************************************)
(* gemini library, digital to digital (line coding).                       *)
(***************************************************************************)
parseBits(data) == [i \in 1..Len(data) |-> parseInt(Chars(data)[i])]

RECURSIVE NrziLevelsFlipOnZero(_, _)
\* a faulty encoder: the level flips on a zero and holds on a one
NrziLevelsFlipOnZero(bits, level) ==
    IF bits = <<>> THEN <<>>
    ELSE LET l == IF Head(bits) = 0 THEN 1 - level ELSE level
         IN  <<l>> \o NrziLevelsFlipOnZero(Tail(bits), l)

RECURSIVE NrziLevels(_, _)
\* the forEach of the nrz-i encoder, carried level as the fold state
NrziLevels(bits, level) ==
    IF bits = <<>> THEN <<>>
    ELSE LET l == IF Head(bits) = 1 THEN 1 - level ELSE level
         IN  <<l>> \o NrziLevels(Tail(bits), l)

RECURSIVE ManchesterLevelsSwapped(_)
\* a faulty encoder: the two half-bit patterns exchanged
ManchesterLevelsSwapped(bits) ==
    IF bits = <<>> THEN <<>>
    ELSE (IF Head(bits) = 1 THEN <<1, 0>> ELSE <<0, 1>>)
         \o ManchesterLevelsSwapped(Tail(bits))

RECURSIVE ManchesterLevels(_)
\* bits.flatMap(b => b === 1 ? [0, 1] : [1, 0])
ManchesterLevels(bits) ==
    IF bits = <<>> THEN <<>>
    ELSE (IF Head(bits) = 1 THEN <<0, 1>> ELSE <<1, 0>>) \o ManchesterLevels(Tail(bits))

RECURSIVE DiffManchesterLevelsFlipOnOne(_, _)
\* a faulty encoder: the level flips at the bit boundary on a one
DiffManchesterLevelsFlipOnOne(bits, level) ==
    IF bits = <<>> THEN <<>>
    ELSE LET start == IF Head(bits) = 1 THEN 1 - level ELSE level
             mid == 1 - start
         IN  <<start, mid>> \o DiffManchesterLevelsFlipOnOne(Tail(bits), mid)

RECURSIVE DiffManchesterLevelsNoMid(_, _)
\* a faulty encoder: only the symbol before the mid-bit flip is emitted
DiffManchesterLevelsNoMid(bits, level) ==
    IF bits = <<>> THEN <<>>
    ELSE LET start == IF Head(bits) = 0 THEN 1 - level ELSE level
             mid == 1 - start
         IN  <<start>> \o DiffManchesterLevelsNoMid(Tail(bits), mid)

RECURSIVE DiffManchesterLevels(_, _)
DiffManchesterLevels(bits, level) ==
    IF bits = <<>> THEN <<>>
    ELSE LET start == IF Head(bits) = 0 THEN 1 - level ELSE level
             mid == 1 - start
         IN  <<start, mid>> \o DiffManchesterLevels(Tail(bits), mid)

RECURSIVE AmiLevelsFlipEveryBit(_, _)
\* a faulty encoder: a zero flips the pending polarity as well
AmiLevelsFlipEveryBit(bits, polarity) ==
    IF bits = <<>> THEN <<>>
    ELSE IF Head(bits) = 1
         THEN <<polarity>> \o AmiLevelsFlipEveryBit(Tail(bits), -polarity)
         ELSE <<0>> \o AmiLevelsFlipEveryBit(Tail(bits), -polarity)

RECURSIVE AmiLevelsNoFlip(_, _)
\* a faulty encoder: the polarity is never flipped
AmiLevelsNoFlip(bits, polarity) ==
    IF bits = <<>> THEN <<>>
    ELSE IF Head(bits) = 1
         THEN <<polarity>> \o AmiLevelsNoFlip(Tail(bits), polarity)
         ELSE <<0>> \o AmiLevelsNoFlip(Tail(bits), polarity)

RECURSIVE AmiLevels(_, _)
AmiLevels(bits, polarity) ==
    IF bits = <<>> THEN <<>>
    ELSE IF Head(bits) = 1
         THEN <<polarity>> \o AmiLevels(Tail(bits), -polarity)
         ELSE <<0>> \o AmiLevels(Tail(bits), polarity)

\* a faulty encoder: nrz-l sends the complement of every bit
encodeInverted(alg, bits) ==
    CASE alg = "nrz-l" -> [i \in 1..Len(bits) |-> Minus(1, bits[i])]
      [] alg = "nrz-i" -> NrziLevels(bits, 0)
      [] alg = "manchester" -> ManchesterLevels(bits)
      [] alg = "diff-manchester" -> DiffManchesterLevels(bits, 0)
      [] alg = "ami" -> AmiLevels(bits, 1)
      [] OTHER -> bits

encode(alg, bits) ==
    CASE alg = "nrz-l" -> bits
      [] alg = "nrz-i" -> NrziLevels(bits, 0)
      [] alg = "manchester" -> ManchesterLevels(bits)
      [] alg = "diff-manchester" -> DiffManchesterLevels(bits, 0)
      [] alg = "ami" -> AmiLevels(bits, 1)
      [] OTHER -> bits

\* result = [encoded[0]]; then one bit per later symbol
NrziDecode(encoded) ==
    Join(<<At(encoded, 0)>>) \o
    Join([i \in 1..(Len(encoded) - 1) |->
            IF encoded[i + 1] # encoded[i] THEN 1 ELSE 0])

RECURSIVE ManchesterDecode(_, _)
ManchesterDecode(encoded, i) ==
    IF i >= Len(encoded) THEN <<>>
    ELSE <<IF At(encoded, i) = 0 /\ At(encoded, i + 1) = 1 THEN "1" ELSE "0">>
         \o ManchesterDecode(encoded, i + 2)

RECURSIVE DiffManchesterDecodeFirstRef(_, _, _)
\* a faulty decoder: the reference is the first symbol of the previous pair
DiffManchesterDecodeFirstRef(encoded, i, prevLevel) ==
    IF i >= Len(encoded) THEN <<>>
    ELSE <<IF At(encoded, i) # prevLevel THEN "0" ELSE "1">>
         \o DiffManchesterDecodeFirstRef(encoded, i + 2, At(encoded, i))

RECURSIVE DiffManchesterDecode(_, _, _)
DiffManchesterDecode(encoded, i, prevLevel) ==
    IF i >= Len(encoded) THEN <<>>
    ELSE <<IF At(encoded, i) # prevLevel THEN "0" ELSE "1">>
         \o DiffManchesterDecode(encoded, i + 2, At(encoded, i + 1))

\* a faulty decoder: only the positive mark is read as a one
AmiDecodePositiveOnly(encoded) ==
    [i \in 1..Len(encoded) |-> IF encoded[i] = 1 THEN "1" ELSE "0"]

\* encoded.map(e => e === 0 ? "0" : "1").join("")
AmiDecode(encoded) == [i \in 1..Len(encoded) |-> IF encoded[i] = 0 THEN "0" ELSE "1"]

decode(alg, encoded, data) ==
    CASE alg = "nrz-l" -> Join([i \in 1..Len(encoded) |-> MathRound(encoded[i])])
      [] alg = "nrz-i" -> NrziDecode(encoded)
      [] alg = "manchester" -> ManchesterDecode(encoded, 0)
      [] alg = "diff-manchester" -> DiffManchesterDecode(encoded, 0, 0)
      [] alg = "ami" -> AmiDecode(encoded)
      [] OTHER -> data

LineMetrics(alg, data) ==
    [bitRate |-> Metric(Len(data), 1000, " bps"),
     signalLevels |-> IF alg = "ami" THEN "3" ELSE "2",
     bandwidth |-> Metric(Len(data), 500, " Hz")]

processDigitalToDigital(alg, data) ==
    LET bits == parseBits(data)
        encoded == encode(alg, bits)
    IN  DigitalResult(data, encoded, decode(alg, encoded, data), LineMetrics(alg, data))

(***************************************************************************)
(* Floating-point numbers of the analog codecs.  A finite number is an     *)
(* integer count of units of 2^-Frac that has at most Prec significant     *)
(* bits; every arithmetic result is rounded to the nearest such number,    *)
(* ties to the even significand, as IEEE 754 binary arithmetic does.       *)
(***************************************************************************)
\* significant bits of a number
Prec == 13
\* fractional bits of the unit
Frac == 14

RECURSIVE Pow2(_)
Pow2(k) == IF k = 0 THEN 1 ELSE 2 * Pow2(k - 1)

RECURSIVE Pow10(_)
Pow10(k) == IF k = 0 THEN 1 ELSE 10 * Pow10(k - 1)

\* the number 1
One == Pow2(Frac)

\* the integer k as a number
Num(k) == k * One

Abs(n) == IF n < 0 THEN -n ELSE n

RECURSIVE BitLen(_)
BitLen(n) == IF n = 0 THEN 0 ELSE 1 + BitLen(n \div 2)

\* a / d rounded to the nearest integer, ties to even (a >= 0, d > 0)
RoundHalfEven(a, d) ==
    LET q == a \div d
        r == a % d
    IN  IF 2 * r > d \/ (2 * r = d /\ q % 2 = 1) THEN q + 1 ELSE q

\* num / den units rounded to a number (den > 0)
RoundRatio(num, den) ==
    LET a == Abs(num)
        shift == BitLen(a \div den) - Prec
        s == IF shift > 0 THEN shift ELSE 0
        mag == RoundHalfEven(a, den * Pow2(s)) * Pow2(s)
    IN  IF num < 0 THEN -mag ELSE mag

RECURSIVE TrailingZeros(_)
TrailingZeros(n) == IF n = 0 \/ n % 2 = 1 THEN 0 ELSE 1 + TrailingZeros(n \div 2)

\* num * 2^e / den units rounded to a number
RoundScaled(num, den, e) ==
    IF e >= 0 THEN RoundRatio(num * Pow2(e), den) ELSE RoundRatio(num, den * Pow2(-e))

\* a + b
FAdd(a, b) == RoundRatio(a + b, 1)

\* a - b
FSub(a, b) == RoundRatio(a - b, 1)

\* a * b
FMul(a, b) ==
    LET i == TrailingZeros(Abs(a))
        j == TrailingZeros(Abs(b))
    IN  RoundScaled((a \div Pow2(i)) * (b \div Pow2(j)), 1, i + j - Frac)

\* a / b (b # 0)
FDiv(a, b) ==
    LET i == TrailingZeros(Abs(a))
        j == TrailingZeros(Abs(b))
        n == IF b < 0 THEN -(a \div Pow2(i)) ELSE a \div Pow2(i)
    IN  RoundScaled(n, Abs(b) \div Pow2(j), i - j + Frac)

\* Math.round(x): the nearest integer, ties upwards
FRound(x) == (2 * x + One) \div (2 * One)

\* Math.abs(x)
FAbs(x) == Abs(x)

RECURSIVE SeqMin(_)
\* Math.min(...arr) of a non-empty array
SeqMin(arr) ==
    IF Len(arr) = 1 THEN arr[1]
    ELSE LET m == SeqMin(Tail(arr)) IN IF arr[1] < m THEN arr[1] ELSE m

RECURSIVE SeqMax(_)
\* Math.max(...arr) of a non-empty array
SeqMax(arr) ==
    IF Len(arr) = 1 THEN arr[1]
    ELSE LET m == SeqMax(Tail(arr)) IN IF arr[1] > m THEN arr[1] ELSE m

(***************************************************************************)
(* Numeric tokens of an analog input text.                                 *)
(***************************************************************************)
RECURSIVE DigitRunEnd(_, _)
\* the first position at or after p that holds no digit
DigitRunEnd(s, p) ==
    IF p <= Len(s) /\ IsDigit(s[p]) THEN DigitRunEnd(s, p + 1) ELSE p

CharAt(s, p) == IF p >= 1 /\ p <= Len(s) THEN s[p] ELSE ""

\* end (exclusive) of the optional exponent e-?\d+ that starts at m
ExponentEnd(s, m) ==
    LET e2 == IF CharAt(s, m + 1) = "-" THEN m + 2 ELSE m + 1
        r == DigitRunEnd(s, e2)
    IN  IF CharAt(s, m) \in {"e", "E"} /\ r > e2 THEN r ELSE m

\* end (exclusive) of the match of -?\d*\.?\d+(?:e-?\d+)? at p, 0 if none;
\* withExp is FALSE for the pattern without the exponent group
MatchEnd(s, p, withExp) ==
    LET p1 == IF CharAt(s, p) = "-" THEN p + 1 ELSE p
        q == DigitRunEnd(s, p1)
        m == IF CharAt(s, q) = "." /\ IsDigit(CharAt(s, q + 1))
             THEN DigitRunEnd(s, q + 1)
             ELSE IF q > p1 THEN q ELSE 0
    IN  IF m = 0 THEN 0 ELSE IF withExp THEN ExponentEnd(s, m) ELSE m

RECURSIVE MatchAll(_, _, _)
\* String.prototype.match with the g flag, from position p on
MatchAll(s, p, withExp) ==
    IF p > Len(s) THEN <<>>
    ELSE LET e == MatchEnd(s, p, withExp)
         IN  IF e = 0 THEN MatchAll(s, p + 1, withExp)
             ELSE <<SubSeq(s, p, e - 1)>> \o MatchAll(s, e, withExp)

RECURSIVE DigitsValue(_)
\* the natural number a run of digits denotes
DigitsValue(ds) ==
    IF ds = <<>> THEN 0 ELSE 10 * DigitsValue(SubSeq(ds, 1, Len(ds) - 1)) + DigitValue(ds[Len(ds)])

\* Number(token) of a matched token
ToNumber(tok) ==
    LET neg == tok[1] = "-"
        p1 == IF neg THEN 2 ELSE 1
        q == DigitRunEnd(tok, p1)
        hasFrac == CharAt(tok, q) = "."
        m == IF hasFrac THEN DigitRunEnd(tok, q + 1) ELSE q
        mant == DigitsValue(SubSeq(tok, p1, q - 1) \o
                            (IF hasFrac THEN SubSeq(tok, q + 1, m - 1) ELSE <<>>))
        fracDigits == IF hasFrac THEN m - q - 1 ELSE 0
        expNeg == CharAt(tok, m + 1) = "-"
        expDigits == SubSeq(tok, IF expNeg THEN m + 2 ELSE m + 1, Len(tok))
        e10 == (IF expNeg THEN -DigitsValue(expDigits) ELSE DigitsValue(expDigits))
               - fracDigits
        mag == IF mant # 0 /\ e10 > 308 THEN Infinity
               ELSE IF e10 >= 0 THEN RoundRatio(mant * Pow10(e10) * One, 1)
               ELSE RoundRatio(mant * One, Pow10(-e10))
    IN  IF neg THEN -mag ELSE mag

StripChars(s, quotes) == SelectSeq(s, LAMBDA c : c \notin quotes)

(***************************************************************************)
(* gemini library, analog to digital.                                      *)
(***************************************************************************)
PCM_LEVELS == 256

GeminiQuotes == {"\"", "'"}

parseAnalog(data) ==
    LET matches == MatchAll(StripChars(data, GeminiQuotes), 1, TRUE)
    IN  [i \in 1..Len(matches) |-> ToNumber(matches[i])]

AnalogResult(originalAnalog, encoded, decodedAnalog, demodulatedSignal, metrics) ==
    [NoResult EXCEPT !.kind = "record", !.originalAnalog = originalAnalog,
                     !.encoded = encoded, !.decodedAnalog = decodedAnalog,
                     !.demodulatedSignal = demodulatedSignal, !.metrics = metrics]

\* a faulty empty result: the metrics of the general path of a non-pcm request
EmptySamplingResultGeneralMetrics ==
    AnalogResult(<<>>, <<>>, <<>>, Absent,
                 [bitRate |-> "0 bps", signalLevels |-> "2", bandwidth |-> "0 Hz"])

EmptySamplingResult ==
    AnalogResult(<<>>, <<>>, <<>>, Absent,
                 [bitRate |-> "0 bps", signalLevels |-> "256", bandwidth |-> "0 Hz"])

\* const range = maxVal - minVal || 1
Range(analogValues) ==
    LET r == FSub(SeqMax(analogValues), SeqMin(analogValues))
    IN  IF r = 0 THEN One ELSE r

\* normalized.map(v => Math.round(v * (PCM_LEVELS - 1)))
PcmEncode(analogValues) ==
    LET minVal == SeqMin(analogValues)
        range == Range(analogValues)
    IN  [i \in 1..Len(analogValues) |->
            FRound(FMul(FDiv(FSub(analogValues[i], minVal), range), Num(PCM_LEVELS - 1)))]

\* a faulty decoder: the minimum is not added back
PcmDecodeWithoutOffset(encoded, analogValues) ==
    LET range == Range(analogValues)
    IN  [i \in 1..Len(encoded) |->
            FMul(FDiv(Num(encoded[i]), Num(PCM_LEVELS - 1)), range)]

\* encoded.map(v => (v / (PCM_LEVELS - 1)) * range + minVal)
PcmDecode(encoded, analogValues) ==
    LET minVal == SeqMin(analogValues)
        range == Range(analogValues)
    IN  [i \in 1..Len(encoded) |->
            FAdd(FMul(FDiv(Num(encoded[i]), Num(PCM_LEVELS - 1)), range), minVal)]

\* a faulty encoder: the reference sample gets a symbol too
DeltaEncodeWithReference(analogValues) ==
    [i \in 1..Len(analogValues) |->
        IF i = 1 \/ FSub(analogValues[i], analogValues[i - 1]) >= 0 THEN 1 ELSE 0]

\* encoded.push(diff >= 0 ? 1 : 0) for i = 1 .. length - 1
DeltaEncode(analogValues) ==
    [i \in 1..(Len(analogValues) - 1) |->
        IF FSub(analogValues[i + 1], analogValues[i]) >= 0 THEN 1 ELSE 0]

RECURSIVE DeltaDecode(_, _)
\* decoded after the loop has handled the samples up to index i (0-based)
DeltaDecode(analogValues, i) ==
    IF i = 0 THEN <<analogValues[1]>>
    ELSE LET decoded == DeltaDecode(analogValues, i - 1)
             diff == FSub(analogValues[i + 1], analogValues[i])
             step == FAbs(diff)
         IN  Append(decoded,
                    FAdd(decoded[Len(decoded)], IF diff >= 0 THEN step ELSE -step))

SamplingMetrics(alg, analogValues) ==
    [bitRate |-> Metric(Len(analogValues), 8000, " bps"),
     signalLevels |-> IF alg = "pcm" THEN "256" ELSE "2",
     bandwidth |-> Metric(Len(analogValues), 4000, " Hz")]

processAnalogToDigital(alg, data) ==
    LET analogValues == parseAnalog(data)
        encoded == CASE alg = "pcm" -> PcmEncode(analogValues)
                     [] alg \in {"delta", "adaptive-delta"} -> DeltaEncode(analogValues)
                     [] OTHER -> analogValues
        decoded == CASE alg = "pcm" -> PcmDecode(encoded, analogValues)
                     [] alg \in {"delta", "adaptive-delta"} ->
                            DeltaDecode(analogValues, Len(analogValues) - 1)
                     [] OTHER -> analogValues
    IN  IF Len(analogValues) = 0 THEN EmptySamplingResult
        ELSE AnalogResult(analogValues, encoded, decoded, Absent,
                          SamplingMetrics(alg, analogValues))

(***************************************************************************)
(* gemini library, digital to analog (keying).                             *)
(***************************************************************************)
SAMPLES_PER_BIT == 10

CARRIER_FREQ == 2

\* a decimal literal of the source, num / den
Literal(num, den) == RoundRatio(num * One, den)

\* Math.sin((2 * Math.PI * freq * i) / SAMPLES_PER_BIT + phase) in ten-thousandths,
\* for freq 2 and 4 and the phases 0 and Math.PI ("pi")
SinE4(freq, i, phase) ==
    CASE freq = 2 /\ phase = "0" ->
            <<0, 9511, 5878, -5878, -9511, 0, 9511, 5878, -5878, -9511>>[i + 1]
      [] freq = 4 /\ phase = "0" ->
            <<0, 5878, -9511, 9511, -5878, 0, 5878, -9511, 9511, -5878>>[i + 1]
      [] freq = 2 /\ phase = "pi" ->
            <<0, -9511, -5878, 5878, 9511, 0, -9511, -5878, 5878, 9511>>[i + 1]

\* the sign of a sine the library computes as a nonzero number below 10^-15:
\* sin of 2 pi and of 4 pi is negative, sin of pi and of 3 pi is positive
SinResidue(freq, i, phase) ==
    CASE phase = "0" /\ i = 5 -> -1
      [] phase = "pi" /\ i \in {0, 5} -> 1
      [] OTHER -> 0

\* Math.sin of the carrier: a residue is the smallest number of its sign
MathSin(freq, i, phase) ==
    IF SinE4(freq, i, phase) = 0 THEN SinResidue(freq, i, phase)
    ELSE Literal(SinE4(freq, i, phase), 10000)

\* generateWave(SAMPLES_PER_BIT, fn) for one bit b
BitWave(alg, b) ==
    [k \in 1..SAMPLES_PER_BIT |->
        CASE alg = "ask" -> IF b = 1 THEN One ELSE Literal(3, 10)
          [] alg = "fsk" -> MathSin(IF b = 1 THEN 4 ELSE 2, k - 1, "0")
          [] alg = "psk" -> MathSin(CARRIER_FREQ, k - 1, IF b = 1 THEN "pi" ELSE "0")
          [] alg = "qam" -> FMul(MathSin(CARRIER_FREQ, k - 1, "0"),
                                 IF b = 1 THEN Literal(15, 10) ELSE Literal(5, 10))
          [] OTHER -> IF IsNumber(b) THEN Num(b) ELSE NaN]

RECURSIVE modulate(_, _)
\* bits.flatMap(b => generateWave(...))
modulate(alg, bits) ==
    IF bits = <<>> THEN <<>> ELSE BitWave(alg, Head(bits)) \o modulate(alg, Tail(bits))

RECURSIVE SumAbs(_)
\* segment.reduce((a, b) => a + Math.abs(b), 0)
SumAbs(segment) ==
    IF segment = <<>> THEN 0
    ELSE LET a == SumAbs(SubSeq(segment, 1, Len(segment) - 1))
             b == segment[Len(segment)]
         IN  IF a = NaN \/ b = NaN THEN NaN ELSE FAdd(a, FAbs(b))

\* a faulty comparison: the test is inverted
FallsBelow(avg, threshold) == avg # NaN /\ avg < threshold

\* avg > threshold (false for NaN)
Exceeds(avg, threshold) == avg # NaN /\ avg > threshold

\* the number of sign changes between neighbouring samples
countZeroCrossings(segment) ==
    Cardinality({i \in 2..Len(segment) :
        \/ segment[i - 1] >= 0 /\ segment[i] < 0
        \/ segment[i - 1] < 0 /\ segment[i] >= 0})

RECURSIVE CorrelationOfMagnitudes(_, _)
\* a faulty correlator: the products lose their sign
CorrelationOfMagnitudes(segment, j) ==
    IF j = 0 THEN 0
    ELSE FAdd(CorrelationOfMagnitudes(segment, j - 1),
              FAbs(FMul(segment[j], MathSin(CARRIER_FREQ, j - 1, "0"))))

RECURSIVE Correlation(_, _)
\* the correlation of the first j samples of the segment with the carrier
Correlation(segment, j) ==
    IF j = 0 THEN 0
    ELSE FAdd(Correlation(segment, j - 1),
              FMul(segment[j], MathSin(CARRIER_FREQ, j - 1, "0")))

\* the bit one window of SAMPLES_PER_BIT samples demodulates to
DemodulateSegment(alg, segment) ==
    LET sum == SumAbs(segment)
        avg == IF sum = NaN THEN NaN ELSE FDiv(sum, Num(Len(segment)))
    IN  CASE alg = "ask" -> IF Exceeds(avg, Literal(6, 10)) THEN "1" ELSE "0"
          [] alg = "fsk" -> IF countZeroCrossings(segment) >= 6 THEN "1" ELSE "0"
          [] alg = "psk" -> IF Correlation(segment, Len(segment)) < 0 THEN "1" ELSE "0"
          [] alg = "qam" -> IF Exceeds(avg, Literal(8, 10)) THEN "1" ELSE "0"
          [] OTHER -> IF Exceeds(avg, Literal(5, 10)) THEN "1" ELSE "0"

RECURSIVE demodulate(_, _, _)
\* for (let i = 0; i < modulated.length; i += SAMPLES_PER_BIT), from index i on
demodulate(alg, modulated, i) ==
    IF i >= Len(modulated) THEN <<>>
    ELSE LET last == IF i + SAMPLES_PER_BIT < Len(modulated)
                     THEN i + SAMPLES_PER_BIT ELSE Len(modulated)
         IN  <<DemodulateSegment(alg, SubSeq(modulated, i + 1, last))>>
             \o demodulate(alg, modulated, i + SAMPLES_PER_BIT)

KeyingMetrics(alg, data) ==
    [bitRate |-> Metric(Len(data), 1000, " bps"),
     signalLevels |-> IF alg = "qam" THEN "16" ELSE IF alg = "psk" THEN "4" ELSE "2",
     bandwidth |-> Metric(Len(data), 2000, " Hz")]

processDigitalToAnalog(alg, data) ==
    LET modulated == modulate(alg, parseBits(data))
    IN  DigitalResult(data, modulated, demodulate(alg, modulated, 0),
                      KeyingMetrics(alg, data))

(***************************************************************************)
(* gemini library, analog to analog.  The waveform of am, fm and pm is a   *)
(* sequence of terms <<scheme, sample, i>>, one per generated point, and   *)
(* the demodulated trace a sequence of terms <<scheme, samples of the      *)
(* segment>>: the sines and arctangents of arbitrary samples are not       *)
(* evaluated.                                                              *)
(***************************************************************************)
ANALOG_SAMPLES == 20

RECURSIVE AnalogWave(_, _)
\* analogValues.flatMap(v => generateWave(ANALOG_SAMPLES, i => ...))
AnalogWave(alg, analogValues) ==
    IF analogValues = <<>> THEN <<>>
    ELSE [k \in 1..ANALOG_SAMPLES |-> <<alg, Head(analogValues), k - 1>>]
         \o AnalogWave(alg, Tail(analogValues))

RECURSIVE AnalogTrace(_, _, _)
\* one demodulated value per window of ANALOG_SAMPLES points, from index i on
AnalogTrace(alg, modulated, i) ==
    IF i >= Len(modulated) THEN <<>>
    ELSE <<<<alg, SubSeq(modulated, i + 1, i + ANALOG_SAMPLES)>>>>
         \o AnalogTrace(alg, modulated, i + ANALOG_SAMPLES)

EmptyModulationResult ==
    AnalogResult(<<>>, <<>>, <<>>, <<>>,
                 [bitRate |-> "N/A (Analog)", signalLevels |-> "Continuous",
                  bandwidth |-> "0 Hz"])

processAnalogToAnalog(alg, data) ==
    LET analogValues == parseAnalog(data)
        known == alg \in {"am", "fm", "pm"}
        modulated == IF known THEN AnalogWave(alg, analogValues) ELSE analogValues
        demodulated == IF known THEN AnalogTrace(alg, modulated, 0) ELSE analogValues
    IN  IF Len(analogValues) = 0 THEN EmptyModulationResult
        ELSE AnalogResult(analogValues, modulated, analogValues, demodulated,
                          [bitRate |-> "N/A (Analog)", signalLevels |-> "Continuous",
                           bandwidth |-> Metric(Len(analogValues), 1000, " Hz")])

(***************************************************************************)
(* gemini library, the dispatcher.  processors is an object literal, so    *)
(* processors[mode] finds the four own keys and, for any other mode, what  *)
(* Object.prototype holds under that name: a method (the optional call     *)
(* runs it and its return value is neither null nor undefined), an object  *)
(* (the optional call of a non-function raises a TypeError), or nothing    *)
(* (undefined, which ?? turns into null).                                  *)
(***************************************************************************)
Modes == {"digital-to-digital", "digital-to-analog", "analog-to-digital", "analog-to-analog"}

\* methods every object inherits, returning a non-nullish value when called on
\* processors with (algorithm, inputData)
ObjectPrototypeMethods == {"toString", "valueOf", "hasOwnProperty", "constructor"}

\* inherited properties that are not callable
ObjectPrototypeObjects == {"__proto__"}

\* a faulty dispatcher: the analog-to-analog entry is missing from the table
processTransmissionThreeModes(m, alg, data) ==
    CASE m = "digital-to-digital" -> processDigitalToDigital(alg, data)
      [] m = "digital-to-analog" -> processDigitalToAnalog(alg, data)
      [] m = "analog-to-digital" -> processAnalogToDigital(alg, data)
      [] m \in ObjectPrototypeMethods -> NonRecord
      [] m \in ObjectPrototypeObjects -> Raised
      [] OTHER -> Null

processTransmission(m, alg, data) ==
    CASE m = "digital-to-digital" -> processDigitalToDigital(alg, data)
      [] m = "digital-to-analog" -> processDigitalToAnalog(alg, data)
      [] m = "analog-to-digital" -> processAnalogToDigital(alg, data)
      [] m = "analog-to-analog" -> processAnalogToAnalog(alg, data)
      [] m \in ObjectPrototypeMethods -> NonRecord
      [] m \in ObjectPrototypeObjects -> Raised
      [] OTHER -> Null

(***************************************************************************)
(* student library: the dispatcher, line coding and keying.  Its analog    *)
(* codecs are not part of this model: a student request is a digital       *)
(* request or one with an unrecognized mode.                               *)
(***************************************************************************)
\* a !== b
StrictNotEqual(a, b) == a = NaN \/ b = NaN \/ a # b

RECURSIVE StudentNrziLevels(_, _, _)
\* the forEach of the nrz-i encoder from index idx on: the first bit sets the level
StudentNrziLevels(bits, idx, level) ==
    IF idx >= Len(bits) THEN <<>>
    ELSE LET b == bits[idx + 1]
             l == IF idx = 0 THEN b ELSE IF b = 1 THEN Minus(1, level) ELSE level
         IN  <<l>> \o StudentNrziLevels(bits, idx + 1, l)

StudentEncode(alg, bits) ==
    CASE alg = "nrz-l" -> bits
      [] alg = "nrz-i" -> StudentNrziLevels(bits, 0, 0)
      [] alg = "manchester" -> ManchesterLevels(bits)
      [] alg = "diff-manchester" -> DiffManchesterLevels(bits, 0)
      [] alg = "ami" -> AmiLevels(bits, 1)
      [] OTHER -> bits

StudentNrziDecode(encoded) ==
    Join(<<At(encoded, 0)>>) \o
    Join([i \in 1..(Len(encoded) - 1) |->
            IF StrictNotEqual(encoded[i + 1], encoded[i]) THEN 1 ELSE 0])

StudentDecode(alg, encoded, data) ==
    CASE alg = "nrz-l" -> Join([i \in 1..Len(encoded) |-> MathRound(encoded[i])])
      [] alg = "nrz-i" -> StudentNrziDecode(encoded)
      [] alg = "manchester" -> ManchesterDecode(encoded, 0)
      [] alg = "diff-manchester" -> DiffManchesterDecode(encoded, 0, 0)
      [] alg = "ami" -> AmiDecode(encoded)
      [] OTHER -> data

StudentProcessDigitalToDigital(alg, data) ==
    LET bits == [i \in 1..Len(data) |-> parseInt(Chars(data)[i])]
        encoded == StudentEncode(alg, bits)
    IN  DigitalResult(data, encoded, StudentDecode(alg, encoded, data),
                      LineMetrics(alg, data))

\* the bit one window of 10 samples demodulates to
StudentDemodulateSegment(alg, segment) ==
    LET sum == SumAbs(segment)
        avg == IF sum = NaN THEN NaN ELSE FDiv(sum, Num(Len(segment)))
        highFreq == Cardinality({idx \in 2..Len(segment) :
                        FAbs(FSub(segment[idx], segment[idx - 1])) > Literal(5, 10)})
    IN  CASE alg = "ask" -> IF Exceeds(avg, Literal(6, 10)) THEN "1" ELSE "0"
          [] alg = "fsk" -> IF highFreq > 3 THEN "1" ELSE "0"
          [] alg = "psk" -> IF segment[1] < 0 THEN "1" ELSE "0"
          [] alg = "qam" -> IF Exceeds(avg, Literal(8, 10)) THEN "1" ELSE "0"
          [] OTHER -> IF Exceeds(avg, Literal(5, 10)) THEN "1" ELSE "0"

\* a faulty demodulator: the window advances by one sample short of its width
RECURSIVE StudentDemodulateShortStep(_, _, _)
StudentDemodulateShortStep(alg, modulated, i) ==
    IF i >= Len(modulated) THEN <<>>
    ELSE LET last == IF i + SAMPLES_PER_BIT < Len(modulated)
                     THEN i + SAMPLES_PER_BIT ELSE Len(modulated)
         IN  <<StudentDemodulateSegment(alg, SubSeq(modulated, i + 1, last))>>
             \o StudentDemodulateShortStep(alg, modulated, i + SAMPLES_PER_BIT - 1)

RECURSIVE StudentDemodulate(_, _, _)
\* for (let i = 0; i < modulated.length; i += SAMPLE_COUNT), from index i on
StudentDemodulate(alg, modulated, i) ==
    IF i >= Len(modulated) THEN <<>>
    ELSE LET last == IF i + SAMPLES_PER_BIT < Len(modulated)
                     THEN i + SAMPLES_PER_BIT ELSE Len(modulated)
         IN  <<StudentDemodulateSegment(alg, SubSeq(modulated, i + 1, last))>>
             \o StudentDemodulate(alg, modulated, i + SAMPLES_PER_BIT)

\* the modulation switch computes the same samples as the gemini library's
StudentProcessDigitalToAnalog(alg, data) ==
    LET modulated == modulate(alg, [i \in 1..Len(data) |-> parseInt(Chars(data)[i])])
    IN  DigitalResult(data, modulated, StudentDemodulate(alg, modulated, 0),
                      KeyingMetrics(alg, data))

\* parseAnalogValues(raw): the quotes are removed and every numeric token is
\* converted; trimming the text does not change its tokens
parseAnalogValues(raw) ==
    LET matches == MatchAll(StripChars(raw, GeminiQuotes), 1, TRUE)
    IN  [i \in 1..Len(matches) |-> ToNumber(matches[i])]

\* the waveform and the demodulated trace are terms, as in the gemini library
StudentProcessAnalogToAnalog(alg, data) ==
    LET analogValues == parseAnalogValues(data)
        known == alg \in {"am", "fm", "pm"}
        modulated == IF known THEN AnalogWave(alg, analogValues) ELSE analogValues
        demodulated == IF known THEN AnalogTrace(alg, modulated, 0) ELSE analogValues
    IN  AnalogResult(analogValues, modulated, analogValues, demodulated,
                     [bitRate |-> "N/A (Analog)", signalLevels |-> "Continuous",
                      bandwidth |-> Metric(Len(analogValues), 1000, " Hz")])

StudentModes == {"digital-to-digital", "digital-to-analog", "analog-to-analog"}

StudentProcessTransmission(m, alg, data) ==
    CASE m = "digital-to-digital" -> StudentProcessDigitalToDigital(alg, data)
      [] m = "digital-to-analog" -> StudentProcessDigitalToAnalog(alg, data)
      [] m = "analog-to-analog" -> StudentProcessAnalogToAnalog(alg, data)
      [] OTHER -> Null

(***************************************************************************)
(* geminiLib library (src/lib/transmission_gemini.ts): the dispatcher and  *)
(* line coding.  Its encoders and decoders are looked up by algorithm in   *)
(* object literals, so a tag that names an inherited property of every     *)
(* object finds that property instead of the fallback.                     *)
(***************************************************************************)
LineCodes == {"nrz-l", "nrz-i", "manchester", "diff-manchester", "ami"}

\* the string Object.prototype.toString returns when called without a receiver
ObjectUndefined ==
    <<"[", "o", "b", "j", "e", "c", "t", " ",
      "U", "n", "d", "e", "f", "i", "n", "e", "d", "]">>

\* inherited properties whose call without a receiver, or whose call at all,
\* raises a TypeError
RaisingTags == {"valueOf", "hasOwnProperty", "__proto__"}

\* (encoders[algorithm] || encoders["nrz-l"])(bits)
GeminiLibEncode(alg, bits) ==
    CASE alg \in LineCodes -> StudentEncode(alg, bits)
      [] alg = "toString" -> ObjectUndefined
      [] OTHER -> bits

\* (decoders[algorithm] || (enc => enc.join("")))(encoded)
GeminiLibDecode(alg, encoded) ==
    CASE alg \in LineCodes -> StudentDecode(alg, encoded, <<>>)
      [] alg = "toString" -> ObjectUndefined
      [] alg = "constructor" -> encoded
      [] OTHER -> Join(encoded)

GeminiLibProcessDigitalToDigital(alg, data) ==
    LET bits == parseBits(data)
        encoded == GeminiLibEncode(alg, bits)
    IN  IF alg \in RaisingTags THEN Raised
        ELSE DigitalResult(data, encoded, GeminiLibDecode(alg, encoded),
                           LineMetrics(alg, data))

\* strategies[algorithm] || (bit => generateWave(() => bit)), flat-mapped over
\* the bits; the inherited toString returns one string per bit
GeminiLibModulate(alg, bits) ==
    IF alg = "toString" THEN [i \in 1..Len(bits) |-> ObjectUndefined]
    ELSE modulate(alg, bits)

\* the demodulation loop is the student library's; a window of strings has
\* the mean NaN and reads "0"
GeminiLibProcessDigitalToAnalog(alg, data) ==
    LET bitValues == parseBits(data)
        modulated == GeminiLibModulate(alg, bitValues)
        windows == (Len(modulated) + SAMPLES_PER_BIT - 1) \div SAMPLES_PER_BIT
    IN  IF alg \in RaisingTags /\ bitValues # <<>> THEN Raised
        ELSE IF alg = "toString"
             THEN DigitalResult(data, modulated, [k \in 1..windows |-> "0"],
                                KeyingMetrics(alg, data))
        ELSE DigitalResult(data, modulated, StudentDemodulate(alg, modulated, 0),
                           KeyingMetrics(alg, data))

GeminiLibModes == {"digital-to-digital", "digital-to-analog"}

\* const processor = processors[mode]; processor ? processor(...) : null
GeminiLibProcessTransmission(m, alg, data) ==
    CASE m = "digital-to-digital" -> GeminiLibProcessDigitalToDigital(alg, data)
      [] m = "digital-to-analog" -> GeminiLibProcessDigitalToAnalog(alg, data)
      [] m \in ObjectPrototypeMethods -> NonRecord
      [] m \in ObjectPrototypeObjects -> Raised
      [] OTHER -> Null

(***************************************************************************)
(* chat library: the dispatcher, line coding, digital to analog and analog *)
(* to digital.  Its analog-to-analog codec is not part of this model.      *)
(***************************************************************************)
\* s.split("").map(Number)
bits(s) == [i \in 1..Len(s) |-> NumberOfChar(Chars(s)[i])]

\* the numeric tokens of s without its double quotes; the pattern has no exponent
analog(s) ==
    LET matches == MatchAll(StripChars(s, {"\""}), 1, FALSE)
    IN  [i \in 1..Len(matches) |-> ToNumber(matches[i])]

\* x ? ... : ... of a number: 0 and NaN are falsy
Truthy(x) == x # 0 /\ x # NaN

RECURSIVE ChatManchesterLevelsSwapped(_)
\* a faulty encoder: the halves of every symbol are exchanged
ChatManchesterLevelsSwapped(b) ==
    IF b = <<>> THEN <<>>
    ELSE (IF Truthy(Head(b)) THEN <<1, 0>> ELSE <<0, 1>>)
         \o ChatManchesterLevelsSwapped(Tail(b))

RECURSIVE ChatManchesterLevels(_)
ChatManchesterLevels(b) ==
    IF b = <<>> THEN <<>>
    ELSE (IF Truthy(Head(b)) THEN <<0, 1>> ELSE <<1, 0>>) \o ChatManchesterLevels(Tail(b))

RECURSIVE ChatAmiLevels(_, _)
\* b.map(x => x ? (pol = -pol, -pol) : 0)
ChatAmiLevels(b, pol) ==
    IF b = <<>> THEN <<>>
    ELSE IF Truthy(Head(b))
         THEN <<-(-pol)>> \o ChatAmiLevels(Tail(b), -pol)
         ELSE <<0>> \o ChatAmiLevels(Tail(b), pol)

ChatEncode(algo, b) ==
    CASE algo = "nrz-l" -> b
      [] algo = "nrz-i" -> NrziLevels(b, 0)
      [] algo = "manchester" -> ChatManchesterLevels(b)
      [] algo = "diff-manchester" -> DiffManchesterLevels(b, 0)
      [] algo = "ami" -> ChatAmiLevels(b, 1)
      [] OTHER -> b

ChatDecode(algo, b, enc, data) ==
    CASE algo = "nrz-l" -> Join(enc)
      [] algo = "nrz-i" ->
            Join([i \in 1..Len(enc) |->
                    IF i = 1 THEN enc[i]
                    ELSE IF StrictNotEqual(enc[i], enc[i - 1]) THEN 1 ELSE 0])
      [] algo = "manchester" ->
            Join([i \in 1..Len(b) |-> IF At(enc, (i - 1) * 2) = 0 THEN 1 ELSE 0])
      [] algo = "diff-manchester" -> DiffManchesterDecode(enc, 0, 0)
      [] algo = "ami" -> Join([i \in 1..Len(enc) |-> IF Truthy(enc[i]) THEN 1 ELSE 0])
      [] OTHER -> data

d2d(algo, data) ==
    LET b == bits(data)
        enc == ChatEncode(algo, b)
    IN  DigitalResult(data, enc, ChatDecode(algo, b, enc, data), LineMetrics(algo, data))

a2d(algo, data) ==
    LET v == analog(data)
        enc == CASE algo = "pcm" -> PcmEncode(v)
                 [] algo \in {"delta", "adaptive-delta"} -> DeltaEncode(v)
                 [] OTHER -> v
        dec == CASE algo = "pcm" -> PcmDecode(enc, v)
                 [] algo \in {"delta", "adaptive-delta"} -> DeltaDecode(v, Len(v) - 1)
                 [] OTHER -> v
    IN  IF Len(v) = 0 THEN EmptySamplingResult
        ELSE AnalogResult(v, enc, dec, Absent, SamplingMetrics(algo, v))

\* wave(S, f) for one element x of the bits
ChatBitWave(algo, x) ==
    [k \in 1..SAMPLES_PER_BIT |->
        CASE algo = "ask" -> IF Truthy(x) THEN One ELSE Literal(3, 10)
          [] algo = "fsk" -> MathSin(IF Truthy(x) THEN 4 ELSE 2, k - 1, "0")
          [] algo = "psk" -> MathSin(CARRIER_FREQ, k - 1, IF Truthy(x) THEN "pi" ELSE "0")
          [] algo = "qam" -> FMul(MathSin(CARRIER_FREQ, k - 1, "0"),
                                  IF Truthy(x) THEN Literal(15, 10) ELSE Literal(5, 10))
          [] OTHER -> IF IsNumber(x) THEN Num(x) ELSE NaN]

RECURSIVE ChatModulate(_, _)
\* b.flatMap(x => wave(S, ...))
ChatModulate(algo, b) ==
    IF b = <<>> THEN <<>>
    ELSE ChatBitWave(algo, Head(b)) \o ChatModulate(algo, Tail(b))

\* the bit one window seg demodulates to; the mean divides by S
ChatDemodulateSegment(algo, seg) ==
    LET sum == SumAbs(seg)
        avg == IF sum = NaN THEN NaN ELSE FDiv(sum, Num(SAMPLES_PER_BIT))
    IN  CASE algo = "ask" -> IF Exceeds(avg, Literal(6, 10)) THEN "1" ELSE "0"
          [] algo = "fsk" -> IF countZeroCrossings(seg) >= 6 THEN "1" ELSE "0"
          [] algo = "psk" -> IF Correlation(seg, SAMPLES_PER_BIT) < 0 THEN "1" ELSE "0"
          [] algo = "qam" -> IF Exceeds(avg, Literal(8, 10)) THEN "1" ELSE "0"
          [] OTHER -> IF Exceeds(avg, Literal(5, 10)) THEN "1" ELSE "0"

RECURSIVE ChatDemodulate(_, _, _)
\* for (let i = 0; i < mod.length; i += S), from index i on; mod holds S
\* samples for every bit
ChatDemodulate(algo, mod, i) ==
    IF i >= Len(mod) THEN <<>>
    ELSE <<ChatDemodulateSegment(algo, SubSeq(mod, i + 1, i + SAMPLES_PER_BIT))>>
         \o ChatDemodulate(algo, mod, i + SAMPLES_PER_BIT)

d2a(algo, data) ==
    LET mod == ChatModulate(algo, bits(data))
    IN  DigitalResult(data, mod, ChatDemodulate(algo, mod, 0), KeyingMetrics(algo, data))

ChatModes == {"digital-to-digital", "digital-to-analog", "analog-to-digital"}

ChatProcessTransmission(m, algo, data) ==
    CASE m = "digital-to-digital" -> d2d(algo, data)
      [] m = "digital-to-analog" -> d2a(algo, data)
      [] m = "analog-to-digital" -> a2d(algo, data)
      [] OTHER -> Null

(***************************************************************************)
(* The calls: one request (library, mode, algorithm, input text), run once.*)
(***************************************************************************)
Algorithms ==
    {"nrz-l", "nrz-i", "manchester", "diff-manchester", "ami",
     "ask", "fsk", "psk", "qam", "pcm", "delta", "adaptive-delta",
     "am", "fm", "pm", "unknown", "toString"}

\* mode strings outside the four tags
OtherModes == {"bogus", "toString", "__proto__"}

\* binary digits, a digit that is no bit, white space
DigitalAlphabet == {"0", "1", "2", " "}

DigitalTexts == UNION {[1..n -> DigitalAlphabet] : n \in 0..MaxLen}

SampleLiterals ==
    {<<"1", ".", "0">>, <<"1", ".", "5">>, <<"1", ".", "2">>,
     <<"0", ".", "3">>, <<"0", ".", "9">>}

RECURSIVE SpaceSeparated(_)
SpaceSeparated(literals) ==
    IF literals = <<>> THEN <<>>
    ELSE IF Len(literals) = 1 THEN literals[1]
    ELSE literals[1] \o <<" ">> \o SpaceSeparated(Tail(literals))

\* texts without any digit, and texts with quotation marks or an exponent
OddTexts ==
    {<<"a", "b">>, <<"-", ".", "e">>, <<"1", "'", "5">>, <<"1", "\"", "5">>,
     <<"2", "e", "-", "1">>, <<"-", "1", ".", "5", ",", ".", "5">>}

\* tokens beyond the largest double; analog to analog copies its samples
\* and computes nothing from them, so only that mode is given these texts
OverflowTexts == {<<"1", "e", "9", "9", "9">>, <<"-", "2", "e", "9", "9", "9">>}

AnalogTexts ==
    {SpaceSeparated(ls) : ls \in UNION {[1..n -> SampleLiterals] : n \in 0..MaxSamples}}
    \cup OddTexts

\* a digital mode is given digital texts, an analog mode analog texts; every
\* mode also sees the odd texts and the shortest texts of the other kind
TextsFor(m) ==
    LET short == {t \in DigitalTexts \cup AnalogTexts : Len(t) <= 3}
    IN  IF m \in {"digital-to-digital", "digital-to-analog"}
          THEN DigitalTexts \cup OddTexts \cup short
        ELSE IF m = "analog-to-digital"
          THEN AnalogTexts \cup short
        ELSE IF m = "analog-to-analog"
          THEN AnalogTexts \cup short \cup OverflowTexts
        ELSE OddTexts \cup short

\* the modes a library is modelled for
Modelled(i, m) ==
    \/ i = "gemini"
    \/ i = "student" /\ m \in StudentModes \cup OtherModes
    \/ i = "chat" /\ m \in ChatModes \cup OtherModes
    \/ i = "geminiLib" /\ m \in GeminiLibModes \cup OtherModes

(***************************************************************************)
(* Invocations of the gemini library's processDigitalToDigital run step by *)
(* step and interleaved: one step is one iteration of the encoder's        *)
(* callback or of the decoder's loop.  A frame holds the arguments, the    *)
(* local variables and the working sequences of one invocation; it is      *)
(* reused by the next call made from the same caller.                      *)
(***************************************************************************)
Invocations == {1, 2}

\* the line codes whose encoder or decoder carries a variable across iterations
StepCodes == {"nrz-i", "diff-manchester", "ami"}

BitTexts == UNION {[1..n -> {"0", "1"}] : n \in 0..MaxStepLen}

IdleFrame ==
    [alg |-> "", data |-> <<>>, phase |-> "idle", idx |-> 0, fresh |-> TRUE,
     level |-> 0, polarity |-> 1, prevLevel |-> 0,
     encoded |-> <<>>, decoded |-> <<>>]

\* a faulty scope: the carried variables are declared once, outside the function
LocalsShared(i) == 1

\* the frame that holds the variables declared by let inside invocation i
Locals(i) == i

\* a faulty declaration: the level is not set when the encoder starts
LevelKept(previous) == previous

\* let level = 0, whatever an earlier call left behind
LevelAtStart(previous) == 0

\* let polarity = 1
PolarityAtStart(previous) == 1

\* the page's results state while it is undefined
NoResults ==
    [kind |-> "undefined", mode |-> "", algorithm |-> "", inputData |-> <<>>,
     overtaken |-> FALSE]

\* the page's useState initial values (mode, algorithm and input apart)
PageAtRest ==
    /\ implementation = "original"
    /\ results = NoResults
    /\ isProcessing = FALSE
    /\ timers = <<>>

Init ==
    /\ PageAtRest
    /\ frames = [i \in Invocations |-> IdleFrame]
    /\ impl \in {"gemini", "student", "chat", "geminiLib"}
    /\ mode \in Modes \cup OtherModes
    /\ Modelled(impl, mode)
    /\ algorithm \in Algorithms
    /\ inputData \in TextsFor(mode)
    /\ pc = "call"
    /\ result = NoResult

RunGemini ==
    /\ pc = "call"
    /\ impl = "gemini"
    /\ result' = processTransmission(mode, algorithm, inputData)
    /\ pc' = "done"
    /\ UNCHANGED <<impl, mode, algorithm, inputData, frames,
                   implementation, results, isProcessing, timers>>

RunStudent ==
    /\ pc = "call"
    /\ impl = "student"
    /\ result' = StudentProcessTransmission(mode, algorithm, inputData)
    /\ pc' = "done"
    /\ UNCHANGED <<impl, mode, algorithm, inputData, frames,
                   implementation, results, isProcessing, timers>>

RunChat ==
    /\ pc = "call"
    /\ impl = "chat"
    /\ result' = ChatProcessTransmission(mode, algorithm, inputData)
    /\ pc' = "done"
    /\ UNCHANGED <<impl, mode, algorithm, inputData, frames,
                   implementation, results, isProcessing, timers>>

RunGeminiLib ==
    /\ pc = "call"
    /\ impl = "geminiLib"
    /\ result' = GeminiLibProcessTransmission(mode, algorithm, inputData)
    /\ pc' = "done"
    /\ UNCHANGED <<impl, mode, algorithm, inputData, frames,
                   implementation, results, isProcessing, timers>>

\* the level after the callback has handled bit b
StepLevel(alg, b, level) ==
    CASE alg = "nrz-i" -> IF b = 1 THEN 1 - level ELSE level
      [] alg = "diff-manchester" ->
            1 - (IF b = 0 THEN 1 - level ELSE level)
      [] OTHER -> level

\* the symbols the callback emits for bit b
StepSymbols(alg, b, level, polarity) ==
    CASE alg = "nrz-i" -> <<StepLevel(alg, b, level)>>
      [] alg = "diff-manchester" ->
            LET start == IF b = 0 THEN 1 - level ELSE level
            IN  <<start, 1 - start>>
      [] alg = "ami" -> IF b = 1 THEN <<polarity>> ELSE <<0>>

StepInit ==
    /\ PageAtRest
    /\ impl = "gemini"
    /\ mode = "digital-to-digital"
    /\ algorithm = ""
    /\ inputData = <<>>
    /\ pc = "steps"
    /\ result = NoResult
    /\ frames = [i \in Invocations |-> IdleFrame]

\* a call enters the function: arguments bound, encoder about to run
Start(i) ==
    /\ pc = "steps"
    /\ frames[i].phase \in {"idle", "done"}
    /\ \E alg \in StepCodes, data \in BitTexts :
         frames' = [frames EXCEPT
                      ![i].alg = alg, ![i].data = data, ![i].phase = "encode",
                      ![i].idx = 0, ![i].fresh = (frames[i].phase = "idle"),
                      ![i].encoded = <<>>, ![i].decoded = <<>>,
                      ![Locals(i)].level = LevelAtStart(@),
                      ![Locals(i)].polarity = PolarityAtStart(@)]
    /\ UNCHANGED <<impl, mode, algorithm, inputData, pc, result,
                   implementation, results, isProcessing, timers>>

\* one call of the encoder's callback
EncodeStep(i) ==
    LET f == frames[i]
        own == frames[Locals(i)]
        b == parseBits(f.data)[f.idx + 1]
    IN  /\ pc = "steps"
        /\ f.phase = "encode"
        /\ f.idx < Len(f.data)
        /\ frames' = [frames EXCEPT
                        ![i].encoded = @ \o StepSymbols(f.alg, b, own.level,
                                                        own.polarity),
                        ![i].idx = @ + 1,
                        ![Locals(i)].level = StepLevel(f.alg, b, @),
                        ![Locals(i)].polarity =
                            IF f.alg = "ami" /\ b = 1 THEN -@ ELSE @]
        /\ UNCHANGED <<impl, mode, algorithm, inputData, pc, result,
                   implementation, results, isProcessing, timers>>

\* the encoder returns and the decoder starts: let prevLevel = 0; the decoding
\* loop of an empty signal does not iterate, and the function returns
BeginDecode(i) ==
    /\ pc = "steps"
    /\ frames[i].phase = "encode"
    /\ frames[i].idx = Len(frames[i].data)
    /\ frames' = [frames EXCEPT
                    ![i].phase = IF frames[i].encoded = <<>> THEN "done" ELSE "decode",
                    ![i].idx = 0,
                    ![Locals(i)].prevLevel = 0]
    /\ UNCHANGED <<impl, mode, algorithm, inputData, pc, result,
                   implementation, results, isProcessing, timers>>

\* one iteration of the diff-manchester decoding loop, which carries
\* prevLevel; the decoders of nrz-i and ami carry nothing and run in one
\* step; after the last iteration the function returns its record
DecodeStep(i) ==
    LET f == frames[i]
        own == frames[Locals(i)]
        pairs == f.alg = "diff-manchester"
        next == IF pairs THEN f.idx + 2 ELSE Len(f.encoded)
    IN  /\ pc = "steps"
        /\ f.phase = "decode"
        /\ f.idx < Len(f.encoded)
        /\ frames' = [frames EXCEPT
                        ![i].decoded =
                            IF pairs
                            THEN Append(@, IF At(f.encoded, f.idx) # own.prevLevel
                                           THEN "0" ELSE "1")
                            ELSE decode(f.alg, f.encoded, f.data),
                        ![i].idx = next,
                        ![i].phase = IF next >= Len(f.encoded) THEN "done" ELSE "decode",
                        ![Locals(i)].prevLevel =
                            IF pairs THEN At(f.encoded, f.idx + 1) ELSE @]
        /\ UNCHANGED <<impl, mode, algorithm, inputData, pc, result,
                   implementation, results, isProcessing, timers>>

StepNext ==
    \E i \in Invocations :
        Start(i) \/ EncodeStep(i) \/ BeginDecode(i) \/ DecodeStep(i)

StepSpec == StepInit /\ [][StepNext]_vars

Next == RunGemini \/ RunStudent \/ RunChat \/ RunGeminiLib

Spec == Init /\ [][Next]_vars

(***************************************************************************)
(* The page (Home).  Its state is mode, algorithm (encodingAlgorithm),     *)
(* inputData, implementation, results and isProcessing.  timers holds the  *)
(* calls of handleTransmit that wait for their 800 ms timeout, each with   *)
(* the mode, algorithm and input its closure captured at the click.  A     *)
(* stored result is named by the arguments it was computed from: every     *)
(* library returns an object for each of the four modes.  The field        *)
(* overtaken is history: a Reset ran while the call was waiting.           *)
(***************************************************************************)
MaxTimers == 2

Implementations == {"original", "chat", "gemini"}

\* the items the algorithm selector offers in mode m
algorithms(m) ==
    CASE m = "digital-to-digital" -> {"nrz-l", "nrz-i", "manchester", "diff-manchester", "ami"}
      [] m = "digital-to-analog" -> {"ask", "fsk", "psk", "qam"}
      [] m = "analog-to-digital" -> {"pcm", "delta", "adaptive-delta"}
      [] m = "analog-to-analog" -> {"am", "fm", "pm"}

\* the items the user picks among, and the texts the user types
Picks == {"ami", "psk", "am"}

Typed == {<<"1">>, <<".", "5">>}

\* the input box passes on the binary digits of a text in the digital modes
\* and the whole text in the analog modes
Filtered(m, text) ==
    IF m \in {"digital-to-digital", "digital-to-analog"}
    THEN SelectSeq(text, LAMBDA c : c \in {"0", "1"})
    ELSE text

\* a faulty button: it stays enabled while a transmission is processed
TransmitDisabledWhenEmpty == inputData = <<>> \/ algorithm = ""

\* disabled={isProcessing || !inputData || !encodingAlgorithm}
TransmitDisabled == isProcessing \/ inputData = <<>> \/ algorithm = ""

\* the results the call c stores: newResults, computed from what c captured
NewResults(c) ==
    [kind |-> "stored", mode |-> c.mode, algorithm |-> c.algorithm,
     inputData |-> c.inputData, overtaken |-> c.overtaken]

\* results?.[implementation]?.data
selectedResult ==
    IF results.kind = "undefined" THEN Null
    ELSE [kind |-> "record", implementation |-> implementation, mode |-> results.mode,
          algorithm |-> results.algorithm, inputData |-> results.inputData]

\* {selectedResult && <ResultsPanel mode={mode} algorithm={encodingAlgorithm} .../>}
ResultsPanelShown == selectedResult.kind = "record"

UiInit ==
    /\ PageAtRest
    /\ impl = "student"
    /\ mode = "digital-to-digital"
    /\ algorithm = ""
    /\ inputData = <<>>
    /\ pc = "page"
    /\ result = NoResult
    /\ frames = [i \in Invocations |-> IdleFrame]

setMode(m) ==
    /\ pc = "page"
    /\ m # mode
    /\ mode' = m
    /\ UNCHANGED <<impl, algorithm, inputData, pc, result, frames,
                   implementation, results, isProcessing, timers>>

setEncodingAlgorithm(a) ==
    /\ pc = "page"
    /\ a \in algorithms(mode)
    /\ a # algorithm
    /\ algorithm' = a
    /\ UNCHANGED <<impl, mode, inputData, pc, result, frames,
                   implementation, results, isProcessing, timers>>

setInputData(text) ==
    /\ pc = "page"
    /\ Filtered(mode, text) # inputData
    /\ inputData' = Filtered(mode, text)
    /\ UNCHANGED <<impl, mode, algorithm, pc, result, frames,
                   implementation, results, isProcessing, timers>>

setImplementation(i) ==
    /\ pc = "page"
    /\ i # implementation
    /\ implementation' = i
    /\ UNCHANGED <<impl, mode, algorithm, inputData, pc, result, frames,
                   results, isProcessing, timers>>

\* a click on the Transmit button, up to the await
handleTransmit ==
    /\ pc = "page"
    /\ ~TransmitDisabled
    /\ Len(timers) < MaxTimers
    /\ inputData # <<>> /\ algorithm # ""
    /\ isProcessing' = TRUE
    /\ timers' = Append(timers, [mode |-> mode, algorithm |-> algorithm,
                                 inputData |-> inputData, overtaken |-> FALSE])
    /\ UNCHANGED <<impl, mode, algorithm, inputData, pc, result, frames,
                   implementation, results>>

\* the timeout of the oldest waiting call: handleTransmit from the await on
TimerFires ==
    /\ pc = "page"
    /\ timers # <<>>
    /\ results' = NewResults(Head(timers))
    /\ isProcessing' = FALSE
    /\ timers' = Tail(timers)
    /\ UNCHANGED <<impl, mode, algorithm, inputData, pc, result, frames, implementation>>

handleReset ==
    /\ pc = "page"
    /\ inputData' = <<>>
    /\ results' = NoResults
    /\ timers' = [k \in 1..Len(timers) |-> [timers[k] EXCEPT !.overtaken = TRUE]]
    /\ UNCHANGED <<impl, mode, algorithm, pc, result, frames, implementation, isProcessing>>

UiNext ==
    \/ \E m \in Modes : setMode(m)
    \/ \E a \in Picks : setEncodingAlgorithm(a)
    \/ \E text \in Typed : setInputData(text)
    \/ \E i \in Implementations : setImplementation(i)
    \/ handleTransmit
    \/ TimerFires
    \/ handleReset

UiSpec == UiInit /\ [][UiNext]_vars

\* the event loop runs the callback of every timer that has expired
UiFairSpec == UiSpec /\ WF_vars(TimerFires)

(***************************************************************************)
(* The success check of the results panel and of the comparison panel.     *)
(***************************************************************************)
\* Math.abs(Number(x) - Number(y)) <= tolerance: the difference of two
\* infinities of one sign is NaN, any other difference with an infinity is
\* infinite, and neither is below a tolerance
WithinTolerance(x, y, tolerance) ==
    /\ x \notin {NaN, Infinity, -Infinity}
    /\ y \notin {NaN, Infinity, -Infinity}
    /\ FAbs(FSub(x, y)) <= tolerance

\* areArraysClose(a, b, tolerance) of two arrays
areArraysClose(a, b, tolerance) ==
    /\ Len(a) = Len(b)
    /\ \A idx \in 1..Len(a) : WithinTolerance(a[idx], b[idx], tolerance)

\* isSuccessful of a result, which carries either original and decoded or
\* originalAnalog and decodedAnalog; tolerance is 0.01 in the results panel
\* and 0.001 in the comparison panel
isSuccessful(r, tolerance) ==
    IF r.original # Absent /\ r.decoded # Absent
    THEN r.original = r.decoded
    ELSE IF r.original # Absent \/ r.decoded # Absent THEN FALSE
    ELSE areArraysClose(r.originalAnalog, r.decodedAnalog, tolerance)

(***************************************************************************)
(* Properties.                                                             *)
(***************************************************************************)
Done == pc = "done"

\* a text of binary digits only (the empty text included)
IsBitString(t) == \A i \in 1..Len(t) : t[i] \in {"0", "1"}

\* the bits a bit string denotes
BitsOf(t) == [i \in 1..Len(t) |-> IF t[i] = "1" THEN 1 ELSE 0]

LineCodingCall(libraries, alg) ==
    /\ Done
    /\ impl \in libraries
    /\ mode = "digital-to-digital"
    /\ algorithm = alg

\* C1: NRZ-L round trip.  For every bit string B over {0,1}, the empty one
\* included, processTransmission("digital-to-digital", "nrz-l", B) returns
\* decoded = B and encoded = the bits of B (gemini and student libraries).
NrzlRoundTrip ==
    (LineCodingCall({"gemini", "student"}, "nrz-l") /\ IsBitString(inputData))
        => /\ result.kind = "record"
           /\ result.decoded = inputData
           /\ result.encoded = BitsOf(inputData)

NrzlRoundTripWitness ==
    /\ LineCodingCall({"student"}, "nrz-l")
    /\ inputData = <<"1", "0", "1">>
    /\ result.encoded = <<1, 0, 1>>
    /\ result.decoded = <<"1", "0", "1">>

\* C2: Manchester round trip.  For every bit string B over {0,1} the
\* Manchester encoding has exactly 2*|B| symbols, bit 1 as [0,1] and bit 0 as
\* [1,0], and the decoded text is exactly B.
ManchesterRoundTrip ==
    (LineCodingCall({"gemini"}, "manchester") /\ IsBitString(inputData))
        => /\ result.kind = "record"
           /\ Len(result.encoded) = 2 * Len(inputData)
           /\ \A i \in 1..Len(inputData) :
                <<result.encoded[2 * i - 1], result.encoded[2 * i]>>
                    = IF inputData[i] = "1" THEN <<0, 1>> ELSE <<1, 0>>
           /\ result.decoded = inputData

ManchesterRoundTripWitness ==
    /\ LineCodingCall({"gemini"}, "manchester")
    /\ inputData = <<"1", "0", "0">>
    /\ result.encoded = <<0, 1, 1, 0, 1, 0>>
    /\ result.decoded = <<"1", "0", "0">>

\* C3: AMI decode invariance.  For every bit string B over {0,1}, decoding
\* the AMI encoding of B returns exactly B, whichever polarity the encoder
\* starts from.
AmiDecodeInvariance ==
    (LineCodingCall({"gemini"}, "ami") /\ IsBitString(inputData))
        => /\ result.kind = "record"
           /\ result.decoded = inputData
           /\ \A polarity \in {1, -1} :
                decode("ami", AmiLevels(BitsOf(inputData), polarity), inputData)
                    = inputData

AmiDecodeInvarianceWitness ==
    /\ LineCodingCall({"gemini"}, "ami")
    /\ inputData = <<"1", "1", "0">>
    /\ result.encoded = <<1, -1, 0>>
    /\ result.decoded = <<"1", "1", "0">>

\* C4 as stated: AMI-encoding "111" yields the levels [+1,-1,+1] and
\* AMI-encoding "101" yields [+1,0,+1] (gemini and chat libraries).
AmiAlternationExamples ==
    LineCodingCall({"gemini", "chat"}, "ami")
        => /\ inputData = <<"1", "1", "1">> => result.encoded = <<1, -1, 1>>
           /\ inputData = <<"1", "0", "1">> => result.encoded = <<1, 0, 1>>

\* C4 amended: AMI-encoding "111" yields [+1,-1,+1] and AMI-encoding "101"
\* yields [+1,0,-1]: a zero is sent as 0 and leaves the pending polarity as
\* it is, so the next one takes the polarity opposite to the previous one.
AmiAlternation ==
    LineCodingCall({"gemini", "chat"}, "ami")
        => /\ inputData = <<"1", "1", "1">> => result.encoded = <<1, -1, 1>>
           /\ inputData = <<"1", "0", "1">> => result.encoded = <<1, 0, -1>>

AmiAlternationWitness ==
    /\ LineCodingCall({"chat"}, "ami")
    /\ inputData = <<"1", "0", "1">>
    /\ result.encoded = <<1, 0, -1>>

SamplingCall(algs) ==
    /\ Done
    /\ impl \in {"gemini", "chat"}
    /\ mode = "analog-to-digital"
    /\ algorithm \in algs
    /\ result.kind = "record"

\* C5: delta exact reconstruction.  For every sample sequence S of length
\* N >= 1 under "delta" or "adaptive-delta", encoded[i] is 1 iff
\* S[i+1] - S[i] >= 0 and 0 otherwise, and decodedAnalog equals S element for
\* element; 1.0 1.5 1.2 gives the signs [1, 0] and is reconstructed as itself.
DeltaExactReconstruction ==
    (SamplingCall({"delta", "adaptive-delta"}) /\ Len(result.originalAnalog) >= 1)
        => LET S == result.originalAnalog
           IN  /\ Len(result.encoded) = Len(S) - 1
               /\ \A i \in 1..(Len(S) - 1) :
                    result.encoded[i] = IF S[i + 1] - S[i] >= 0 THEN 1 ELSE 0
               /\ result.decodedAnalog = S
               /\ inputData = SpaceSeparated(<<<<"1", ".", "0">>, <<"1", ".", "5">>,
                                              <<"1", ".", "2">>>>)
                    => result.encoded = <<1, 0>>

\* C6: PCM quantization bounds.  For every sample sequence whose minimum
\* differs from its maximum, every PCM level is an integer in [0,255], every
\* reconstructed value lies within [min,max] and differs from its original
\* sample by at most (max - min)/255.
PcmQuantizationBounds ==
    (SamplingCall({"pcm"}) /\ Len(result.originalAnalog) >= 1)
        => LET S == result.originalAnalog
               lo == SeqMin(S)
               hi == SeqMax(S)
           IN  lo # hi =>
                 /\ Len(result.encoded) = Len(S)
                 /\ Len(result.decodedAnalog) = Len(S)
                 /\ \A i \in 1..Len(S) :
                      /\ result.encoded[i] \in 0..(PCM_LEVELS - 1)
                      /\ lo <= result.decodedAnalog[i]
                      /\ result.decodedAnalog[i] <= hi
                      /\ Abs(result.decodedAnalog[i] - S[i]) * (PCM_LEVELS - 1)
                            <= hi - lo

\* no character of the text is a digit, so the text holds no numeric token
NoNumericToken(t) == \A i \in 1..Len(t) : ~IsDigit(t[i])

\* C7: empty analog input.  For analog-to-digital with any algorithm, an
\* input that is empty or holds no numeric token yields a result, not an
\* exception, whose originalAnalog, encoded and decodedAnalog are all empty
\* and whose metrics have signalLevels "256" and bitRate "0 bps".
EmptyAnalogInput ==
    (Done /\ impl = "gemini" /\ mode = "analog-to-digital" /\ NoNumericToken(inputData))
        => /\ result.kind = "record"
           /\ result.originalAnalog = <<>>
           /\ result.encoded = <<>>
           /\ result.decodedAnalog = <<>>
           /\ result.metrics.signalLevels = "256"
           /\ result.metrics.bitRate = "0 bps"

EmptyAnalogInputWitness ==
    /\ Done
    /\ impl = "gemini"
    /\ mode = "analog-to-digital"
    /\ algorithm = "delta"
    /\ inputData = <<"-", ".", "e">>
    /\ result.kind = "record"
    /\ result.encoded = <<>>
    /\ result.metrics.signalLevels = "256"

\* C8: dispatcher null on bad mode.  For every mode string that is not one of
\* the four tags, processTransmission returns null for every algorithm and
\* input, and no codec is run (gemini and student libraries).
NullOnBadMode ==
    (Done /\ impl \in {"gemini", "student"} /\ mode \notin Modes) => result = Null

\* C9: for each of the four valid modes, processTransmission returns a
\* non-null result carrying a metrics record with bitRate, signalLevels and
\* bandwidth, for every algorithm string and every input string.
ValidModeGivesResult ==
    (Done /\ impl = "gemini" /\ mode \in Modes)
        => /\ result.kind = "record"
           /\ result.metrics.bitRate # ""
           /\ result.metrics.signalLevels # ""
           /\ result.metrics.bandwidth # ""

ValidModeGivesResultWitness ==
    /\ Done
    /\ impl = "gemini"
    /\ mode = "analog-to-analog"
    /\ algorithm = "nrz-l"
    /\ inputData = <<"a", "b">>
    /\ result.kind = "record"
    /\ result.metrics.bitRate # ""

\* C10: no fatal conditions.  For every mode string, algorithm string and
\* input string, processTransmission completes and returns either a result
\* record or null; no call ends in a raised error.
NoFatalConditions ==
    Done => /\ result.kind # "throw"
            /\ result.kind \in {"record", "null"}

\* C11: identity fallback for line coding.  For digital-to-digital with any
\* algorithm tag other than nrz-l, nrz-i, manchester, diff-manchester and
\* ami, decoded equals the input string unchanged and encoded equals the
\* parsed bits of the input, for every bit string (gemini and geminiLib).
IdentityFallback ==
    (/\ Done
     /\ impl \in {"gemini", "geminiLib"}
     /\ mode = "digital-to-digital"
     /\ algorithm \notin LineCodes
     /\ IsBitString(inputData))
        => /\ result.kind = "record"
           /\ result.decoded = inputData
           /\ result.encoded = BitsOf(inputData)

\* C12: line-coded length invariant.  For every bit string of length N >= 0
\* the encoded signal has exactly N symbols under nrz-l, nrz-i and ami and
\* exactly 2*N symbols under manchester and diff-manchester (gemini and
\* student libraries).
LineCodedLength ==
    (/\ Done
     /\ impl \in {"gemini", "student"}
     /\ mode = "digital-to-digital"
     /\ algorithm \in LineCodes
     /\ IsBitString(inputData))
        => /\ result.kind = "record"
           /\ Len(result.encoded) =
                IF algorithm \in {"manchester", "diff-manchester"}
                THEN 2 * Len(inputData) ELSE Len(inputData)

LineCodedLengthWitness ==
    /\ LineCodingCall({"student"}, "diff-manchester")
    /\ inputData = <<"1", "0", "1">>
    /\ Len(result.encoded) = 6

KeyingCodes == {"ask", "fsk", "psk", "qam"}

\* C13: digital modulation segment length.  For every bit string of length
\* N and every algorithm among ask, fsk, psk and qam, encoded has N * 10
\* samples and decoded has one symbol per window of 10 samples, N in all
\* (gemini and student libraries).
KeyingSegmentLength ==
    (/\ Done
     /\ impl \in {"gemini", "student"}
     /\ mode = "digital-to-analog"
     /\ algorithm \in KeyingCodes
     /\ IsBitString(inputData))
        => /\ result.kind = "record"
           /\ Len(result.encoded) = Len(inputData) * 10
           /\ Len(result.decoded) = Len(inputData)
           /\ \A i \in 1..Len(result.decoded) : result.decoded[i] \in {"0", "1"}

KeyingSegmentLengthWitness ==
    /\ Done
    /\ impl = "student"
    /\ mode = "digital-to-analog"
    /\ algorithm = "fsk"
    /\ inputData = <<"1", "0", "1">>
    /\ Len(result.encoded) = 30
    /\ Len(result.decoded) = 3

\* C14: analog-to-digital length invariant.  For every non-empty sample
\* sequence of length N, encoded has exactly N elements under pcm and
\* exactly N - 1 under delta and adaptive-delta, and decodedAnalog has
\* exactly N elements in both cases (gemini and chat libraries).
SamplingLength ==
    (SamplingCall({"pcm", "delta", "adaptive-delta"}) /\ Len(result.originalAnalog) >= 1)
        => LET N == Len(result.originalAnalog)
           IN  /\ Len(result.encoded) = IF algorithm = "pcm" THEN N ELSE N - 1
               /\ Len(result.decodedAnalog) = N

SamplingLengthWitness ==
    /\ SamplingCall({"adaptive-delta"})
    /\ impl = "chat"
    /\ Len(result.originalAnalog) = 3
    /\ Len(result.encoded) = 2
    /\ Len(result.decodedAnalog) = 3

\* what the library returns for the arguments of a frame when the call runs
\* alone, as the first call
Alone(f) == processTransmission("digital-to-digital", f.alg, f.data)

\* C15: isolation under concurrent use.  When several invocations are
\* interleaved step by step, the encoded and decoded outputs of each equal
\* the outputs of running that invocation alone, and a step of one
\* invocation leaves the carried level, polarity and previous level of
\* every other invocation as they are.
Isolation ==
    /\ \A i \in Invocations :
         frames[i].phase = "done" =>
            /\ frames[i].encoded = Alone(frames[i]).encoded
            /\ frames[i].decoded = Alone(frames[i]).decoded
    /\ \A i \in Invocations :
         frames[i].phase = "encode" =>
            frames[i].encoded
                = SubSeq(Alone(frames[i]).encoded, 1, Len(frames[i].encoded))

\* both invocations are in the middle of their loops at the same time
IsolationWitness ==
    /\ pc = "steps"
    /\ frames[1].alg = "diff-manchester" /\ frames[1].data = <<"1", "0">>
    /\ frames[1].phase = "decode" /\ frames[1].idx = 2
    /\ frames[1].encoded = <<0, 1, 0, 1>> /\ frames[1].decoded = <<"1">>
    /\ frames[2].alg = "nrz-i" /\ frames[2].data = <<"1", "1">>
    /\ frames[2].phase = "encode" /\ frames[2].encoded = <<1>>

\* C16: no persistent state between invocations.  After any sequence of
\* earlier calls, a call returns the result the same arguments give as the
\* very first call; the nrz-i / diff-manchester level and the ami polarity
\* start from 0 and +1 on every call.
NoPersistentState ==
    \A i \in Invocations :
        ~frames[i].fresh =>
            /\ (frames[i].phase = "encode" /\ frames[i].idx = 0) =>
                  /\ frames[i].level = 0
                  /\ frames[i].polarity = 1
            /\ frames[i].phase = "done" =>
                  /\ Alone(frames[i]).kind = "record"
                  /\ frames[i].encoded = Alone(frames[i]).encoded
                  /\ frames[i].decoded = Alone(frames[i]).decoded

NoPersistentStateWitness ==
    /\ pc = "steps"
    /\ ~frames[1].fresh
    /\ frames[1].alg = "ami" /\ frames[1].data = <<"1", "1">>
    /\ frames[1].phase = "done"
    /\ frames[1].encoded = <<1, -1>>
    /\ frames[1].decoded = <<"1", "1">>

RECURSIVE TrimStart(_)
TrimStart(t) == IF t # <<>> /\ Head(t) = " " THEN TrimStart(Tail(t)) ELSE t

RECURSIVE TrimEnd(_)
TrimEnd(t) ==
    IF t # <<>> /\ t[Len(t)] = " " THEN TrimEnd(SubSeq(t, 1, Len(t) - 1)) ELSE t

\* the text without its leading and trailing white space
Trim(t) == TrimEnd(TrimStart(t))

\* what library i returns for the given arguments
Returned(i, m, alg, data) ==
    IF i = "student" THEN StudentProcessTransmission(m, alg, data)
    ELSE processTransmission(m, alg, data)

\* C17: bit parsing uses the trimmed input.  For the digital modes, white
\* space around a bit string contributes no symbols: encoded is the same as
\* for the unpadded bit string, and under nrz-l its length is the number of
\* digit characters (gemini and student libraries).
TrimmedBitParsing ==
    (/\ Done
     /\ impl \in {"gemini", "student"}
     /\ mode \in {"digital-to-digital", "digital-to-analog"}
     /\ IsBitString(Trim(inputData)))
        => /\ result.kind = "record"
           /\ result.encoded = Returned(impl, mode, algorithm, Trim(inputData)).encoded
           /\ (mode = "digital-to-digital" /\ algorithm = "nrz-l")
                => Len(result.encoded) = Len(Trim(inputData))

\* symbol k (1-based) of a signal, 0 standing for the level before the first
Before(signal, k) == IF k = 1 THEN 0 ELSE signal[k - 1]

\* C18: NRZ-I round trip.  With the level starting at 0, flipping on each 1
\* and holding on each 0, the decoded text equals B for every bit string B,
\* and every decoded bit, the first included, is 1 iff its symbol differs
\* from the one before it, the level 0 standing before the first.
NrziRoundTrip ==
    (LineCodingCall({"gemini"}, "nrz-i") /\ IsBitString(inputData))
        => /\ result.kind = "record"
           /\ Len(result.encoded) = Len(inputData)
           /\ \A k \in 1..Len(inputData) :
                result.encoded[k] =
                    IF inputData[k] = "1" THEN 1 - Before(result.encoded, k)
                    ELSE Before(result.encoded, k)
           /\ result.decoded = inputData
           /\ \A k \in 1..Len(result.decoded) :
                result.decoded[k] =
                    IF result.encoded[k] # Before(result.encoded, k) THEN "1" ELSE "0"

NrziRoundTripWitness ==
    /\ LineCodingCall({"gemini"}, "nrz-i")
    /\ inputData = <<"1", "1", "0">>
    /\ result.encoded = <<1, 0, 0>>
    /\ result.decoded = <<"1", "1", "0">>

\* C19: Differential Manchester round trip.  For every bit string B the
\* decoded text is exactly B, each decoded bit being 1 when the first symbol
\* of its pair equals the reference and 0 when it differs, the reference
\* being 0 before the first pair and the second symbol of the previous pair
\* afterwards (gemini and student libraries).
DiffManchesterRoundTrip ==
    (LineCodingCall({"gemini", "student"}, "diff-manchester") /\ IsBitString(inputData))
        => /\ result.kind = "record"
           /\ result.decoded = inputData
           /\ Len(result.encoded) = 2 * Len(result.decoded)
           /\ \A k \in 1..Len(result.decoded) :
                result.decoded[k] =
                    IF result.encoded[2 * k - 1] = Before(result.encoded, 2 * k - 1)
                    THEN "1" ELSE "0"

DiffManchesterRoundTripWitness ==
    /\ LineCodingCall({"student"}, "diff-manchester")
    /\ inputData = <<"1", "1", "0">>
    /\ result.encoded = <<0, 1, 1, 0, 1, 0>>
    /\ result.decoded = <<"1", "1", "0">>

\* C20: Differential Manchester transitions.  In the encoding of any bit
\* string, (a) the two symbols of each bit differ and (b) the first symbol
\* of bit k differs from the second symbol of bit k-1, or from the initial
\* level 0 for the first bit, iff bit k is 0 (gemini and student libraries).
DiffManchesterTransitions ==
    (LineCodingCall({"gemini", "student"}, "diff-manchester") /\ IsBitString(inputData))
        => /\ Len(result.encoded) = 2 * Len(inputData)
           /\ \A k \in 1..Len(inputData) :
                /\ result.encoded[2 * k - 1] # result.encoded[2 * k]
                /\ (result.encoded[2 * k - 1] # Before(result.encoded, 2 * k - 1))
                        <=> (inputData[k] = "0")

DiffManchesterTransitionsWitness ==
    /\ LineCodingCall({"gemini"}, "diff-manchester")
    /\ inputData = <<"0", "1", "0">>
    /\ result.encoded = <<1, 0, 0, 1, 0, 1>>

\* the nonzero symbols of a signal, in order
Marks(signal) == SelectSeq(signal, LAMBDA v : v # 0)

\* C21: AMI mark alternation.  In the AMI encoding of any bit string every
\* bit 0 is encoded as 0 and every bit 1 as a nonzero symbol, and the nonzero
\* symbols, read in order, are +1,-1,+1,-1,... however many zeros lie
\* between them (gemini and student libraries).
AmiMarkAlternation ==
    (LineCodingCall({"gemini", "student"}, "ami") /\ IsBitString(inputData))
        => /\ Len(result.encoded) = Len(inputData)
           /\ \A k \in 1..Len(inputData) :
                (inputData[k] = "0") <=> (result.encoded[k] = 0)
           /\ \A j \in 1..Len(Marks(result.encoded)) :
                Marks(result.encoded)[j] = IF j % 2 = 1 THEN 1 ELSE -1

AmiMarkAlternationWitness ==
    /\ LineCodingCall({"student"}, "ami")
    /\ inputData = <<"1", "0", "1">>
    /\ result.encoded = <<1, 0, -1>>
    /\ Marks(result.encoded) = <<1, -1>>

\* a call of the gemini library's digital-to-analog processor with one of algs
KeyingCall(algs) ==
    /\ Done
    /\ impl = "gemini"
    /\ mode = "digital-to-analog"
    /\ algorithm \in algs

\* C22: PSK demodulation recovers the bits.  For every bit string B, the
\* gemini library's psk modulation (ten samples of the carrier per bit, phase
\* pi for 1 and 0 for 0) followed by its correlation demodulation returns
\* decoded = B.
PskRoundTrip ==
    (KeyingCall({"psk"}) /\ IsBitString(inputData))
        => result.decoded = inputData

PskRoundTripWitness ==
    /\ KeyingCall({"psk"})
    /\ inputData = <<"1", "0", "1">>
    /\ Len(result.encoded) = 3 * SAMPLES_PER_BIT
    /\ Correlation(SubSeq(result.encoded, 1, SAMPLES_PER_BIT), SAMPLES_PER_BIT) < 0
    /\ result.decoded = <<"1", "0", "1">>

\* C23: ASK demodulation recovers the bits.  For every bit string B, the
\* gemini library's ask modulation (ten samples of 1.0 for 1 and of 0.3 for 0)
\* followed by the mean-amplitude test against 0.6 returns decoded = B.
AskRoundTrip ==
    (KeyingCall({"ask"}) /\ IsBitString(inputData))
        => result.decoded = inputData

AskRoundTripWitness ==
    /\ KeyingCall({"ask"})
    /\ inputData = <<"0", "1", "0">>
    /\ \A k \in 1..SAMPLES_PER_BIT : result.encoded[k] = Literal(3, 10)
    /\ \A k \in 1..SAMPLES_PER_BIT : result.encoded[SAMPLES_PER_BIT + k] = One
    /\ result.decoded = <<"0", "1", "0">>

StudentOutcome == StudentProcessTransmission(mode, algorithm, inputData)

ChatOutcome == ChatProcessTransmission(mode, algorithm, inputData)

GeminiOutcome == processTransmission(mode, algorithm, inputData)

GeminiLibOutcome == GeminiLibProcessTransmission(mode, algorithm, inputData)

\* two outcomes carry the same signal and the same decoded text
SameTransmission(a, b) ==
    /\ a.kind = b.kind
    /\ a.encoded = b.encoded
    /\ a.decoded = b.decoded

\* C25: the implementations are equivalent on line coding.  For every bit
\* string and each of nrz-l, nrz-i, manchester, diff-manchester and ami, the
\* student, chat and gemini libraries return identical encoded sequences and
\* identical decoded strings.
LineCodingEquivalence ==
    (Done /\ mode = "digital-to-digital" /\ algorithm \in LineCodes
          /\ IsBitString(inputData))
        => /\ result.kind = "record"
           /\ SameTransmission(result, StudentOutcome)
           /\ SameTransmission(result, ChatOutcome)
           /\ SameTransmission(result, GeminiOutcome)
           /\ SameTransmission(result, GeminiLibOutcome)

LineCodingEquivalenceWitness ==
    /\ Done
    /\ impl = "chat"
    /\ mode = "digital-to-digital"
    /\ algorithm = "diff-manchester"
    /\ inputData = <<"0", "1", "1">>
    /\ result.encoded = StudentOutcome.encoded
    /\ result.encoded = <<1, 0, 0, 1, 1, 0>>
    /\ result.decoded = <<"0", "1", "1">>

\* C26: the implementations agree on digital-to-analog demodulation.  For
\* every bit string and each of ask, fsk, psk and qam, the decoded string of
\* the student library equals that of the chat and gemini libraries, and all
\* equal the input.
KeyingEquivalence ==
    (Done /\ mode = "digital-to-analog" /\ algorithm \in KeyingCodes
          /\ IsBitString(inputData))
        => /\ StudentOutcome.decoded = ChatOutcome.decoded
           /\ StudentOutcome.decoded = GeminiOutcome.decoded
           /\ StudentOutcome.decoded = GeminiLibOutcome.decoded
           /\ StudentOutcome.decoded = inputData

\* C27: Reset wins over an in-flight transmission.  After Reset has run, no
\* results are displayed until the user starts a new Transmit: a Transmit
\* that was waiting for its timeout when Reset ran publishes no results.
ResetWins == results.kind = "stored" => ~results.overtaken

\* C28: displayed results match the current selection.  In every reachable
\* state of the page in which the results panel is shown, the mode and the
\* algorithm it is given are those the shown results were computed from.
DisplayedResultsMatchSelection ==
    ResultsPanelShown
        => /\ mode = selectedResult.mode
           /\ algorithm = selectedResult.algorithm

\* C29: at most one transmission is in flight.  While a Transmit is being
\* processed no second Transmit starts, the step that clears isProcessing
\* stores the results of that Transmit, and every started Transmit
\* eventually clears isProcessing.
AtMostOneInFlight ==
    /\ [](Len(timers) <= 1 /\ (isProcessing <=> timers # <<>>))
    /\ [][isProcessing => Len(timers') <= Len(timers)]_vars
    /\ [][(isProcessing /\ ~isProcessing')
            => (Len(timers) = 1 /\ results' = NewResults(timers[1]))]_vars
    /\ (isProcessing ~> ~isProcessing)

AtMostOneInFlightWitness ==
    /\ pc = "page"
    /\ isProcessing
    /\ Len(timers) = 1
    /\ TransmitDisabled
    /\ inputData # <<>> /\ algorithm # ""
    /\ results.kind = "stored"

\* C30: in analog-to-analog mode decodedAnalog is the parsed input samples,
\* for every algorithm and every input, whatever the modulated signal and
\* demodulatedSignal are, so the success check of the results panel and of
\* the comparison panel passes for every analog-to-analog result (gemini and
\* student libraries).
AnalogCopySucceeds ==
    (Done /\ impl \in {"gemini", "student"} /\ mode = "analog-to-analog")
        => /\ result.kind = "record"
           /\ result.decodedAnalog = parseAnalogValues(inputData)
           /\ result.decodedAnalog = result.originalAnalog
           /\ isSuccessful(result, Literal(1, 100))
           /\ isSuccessful(result, Literal(1, 1000))

====
